---- MODULE Spec2Model ----
(***************************************************************************)
(* LedgerFlow (src/app.py): the credential store (users.db), the ledger    *)
(* store (expense_tracker.db: expenses, budget), the two cached reads and  *)
(* the Streamlit session that drives them.                                 *)
(*                                                                         *)
(* Modelling conventions                                                   *)
(*  - a table is the set of its rows, a row a record named by its columns; *)
(*  - Python None and the empty string are both falsy in every test the    *)
(*    code makes on them; None is written NoUser for a user id and 0 for   *)
(*    an id, a month or a year;                                            *)
(*  - amounts are whole currency units (no binary rounding is modelled);   *)
(*  - datetime.now().isoformat() is the instant it formats: the text       *)
(*    order of ISO instants is their time order;                           *)
(*  - dates are the text 'YYYY-MM-DD', a sequence of one-character         *)
(*    strings, produced and parsed as the code does.                       *)
(***************************************************************************)
EXTENDS Integers, Sequences, FiniteSets, TLC

VARIABLES
    users,          \* users.db: table users(id, username, password)
    users_seq,      \* sqlite_sequence of users (AUTOINCREMENT)
    expenses,       \* expense_tracker.db: table expenses
    expenses_seq,   \* sqlite_sequence of expenses (AUTOINCREMENT)
    budget,         \* expense_tracker.db: table budget
    session_state,  \* st.session_state of the browser session, but for the write flags
    write_flags,    \* st.session_state: expense_added, budget_set, expense_deleted,
                    \* expense_updated
    cache_expenses, \* st.cache_data of get_expenses: entries (key, value, at)
    cache_budget,   \* st.cache_data of get_budget: entries (key, value, at)
    now,            \* the clock
    view,           \* what the page computed for display in the current run
    pc,             \* where the session's script run stands
    event,          \* the widget event the current run was started by
    rerun,          \* st.rerun() was called: the script runs again with no event
    message,        \* the last st.success / st.warning / st.error of a store function
    ret,            \* the value returned by the last register_user / verify_user
    lastCall,       \* history: the last store function called, with its arguments
    added,          \* history: the add_expense calls that succeeded, with the id given
    budget_sets,    \* history: per user, the amounts of the set_budget calls that succeeded
    registered      \* history: the (username, password) pairs register_user accepted

vars == <<users, users_seq, expenses, expenses_seq, budget, session_state, write_flags,
          cache_expenses, cache_budget, now, view, pc, event, rerun, message, ret, lastCall, added, budget_sets, registered>>

\* what the store-level specifications leave alone
app_vars == <<cache_expenses, cache_budget, now, view, pc, event, rerun>>

----------------------------------------------------------------------------
(* Bounds of the model *)

\* add_expense calls in a behaviour of the ledger (ids 1..MaxExpenses)
MaxExpenses == 2
\* add_expense calls in a behaviour of adds alone
MaxAdded == 3
\* successful set_budget calls of one user in a behaviour of the budget
MaxBudgetSets == 2
\* add_expense calls in a behaviour of the application
MaxAppExpenses == 1
\* the clock of the application runs up to MaxNow
MaxNow == 30
\* expenses in a list given to the category aggregation
MaxListLen == 3

NoUser == "None"
Users == {"alice", "bob"}
\* the instants datetime.now() can return; wall-clock time, so any of them at any call
Times == {1, 2}

----------------------------------------------------------------------------
(* Text: dates and their formatting *)

Digits == <<"0", "1", "2", "3", "4", "5", "6", "7", "8", "9">>

Digit(n) == Digits[n + 1]

IsDigit(c) == \E n \in 0..9 : Digits[n + 1] = c

DigitVal(c) == CHOOSE n \in 0..9 : Digits[n + 1] = c

\* f"{n:02d}" and f"{n:04d}" / strftime's %m, %d and %Y
Fmt2(n) == <<Digit((n \div 10) % 10), Digit(n % 10)>>
Fmt4(n) == <<Digit((n \div 1000) % 10), Digit((n \div 100) % 10)>> \o Fmt2(n)

\* date.strftime('%Y-%m-%d') of a datetime.date
strftime_Ymd(d) == Fmt4(d.year) \o <<"-">> \o Fmt2(d.month) \o <<"-">> \o Fmt2(d.day)

\* SQLite's reading of a date text: the fields of 'YYYY-MM-DD', or NULL (<<>>)
sqlite_parse_date(text) ==
    IF /\ Len(text) = 10
       /\ text[5] = "-" /\ text[8] = "-"
       /\ \A i \in {1, 2, 3, 4, 6, 7, 9, 10} : IsDigit(text[i])
    THEN LET y == 1000 * DigitVal(text[1]) + 100 * DigitVal(text[2])
                  + 10 * DigitVal(text[3]) + DigitVal(text[4])
             m == 10 * DigitVal(text[6]) + DigitVal(text[7])
             d == 10 * DigitVal(text[9]) + DigitVal(text[10])
         IN IF m \in 1..12 /\ d \in 1..31 THEN <<y, m, d>> ELSE <<>>
    ELSE <<>>

\* STRFTIME("%Y-%m", date) and STRFTIME("%Y", date); NULL is <<>>
sqlite_strftime_Ym(text) ==
    LET p == sqlite_parse_date(text)
    IN IF p = <<>> THEN <<>> ELSE Fmt4(p[1]) \o <<"-">> \o Fmt2(p[2])

sqlite_strftime_Y(text) ==
    LET p == sqlite_parse_date(text)
    IN IF p = <<>> THEN <<>> ELSE Fmt4(p[1])

----------------------------------------------------------------------------
(* Inputs *)

\* expense_data as the forms build it (amount, description, category, date text)
ExpenseData ==
    { [amount |-> 10, description |-> "Coffee", category |-> "Food",
       date |-> strftime_Ymd([year |-> 2024, month |-> 1, day |-> 15])],
      [amount |-> 5, description |-> "Lunch", category |-> "Food",
       date |-> strftime_Ymd([year |-> 2024, month |-> 2, day |-> 1])],
      [amount |-> 7, description |-> "Transport", category |-> "Transport",
       date |-> strftime_Ymd([year |-> 2023, month |-> 12, day |-> 31])] }

\* month and year arguments of get_expenses; 0 is None
Months == {0, 1, 2, 12}
Years == {0, 2023, 2024}

----------------------------------------------------------------------------
(* Messages *)

MsgNone == ""
MsgNoUser == "No user logged in."
MsgAdded == "Expense added successfully!"
MsgAddError == "Error adding expense"
MsgUpdated == "Expense updated successfully!"
MsgUpdateNotFound == "Expense not found or you don't have permission to edit it."
MsgUpdateError == "Error updating expense"
MsgDeleted == "Expense deleted successfully!"
MsgDeleteNotFound == "Expense not found or you don't have permission to delete it."
MsgDeleteError == "Error deleting expense"
MsgBudgetSet == "Budget set successfully!"
MsgBudgetError == "Error setting budget"
MsgVerifyRaised == "sqlite3.Error (uncaught)"
MsgRegisterError == "Error registering user"

NoCall == [op |-> "none", id |-> 0, user |-> NoUser]

----------------------------------------------------------------------------
(* Session state initialization *)

\* datetime.now().month and .year, the session's first period
CurrentMonth == 1
CurrentYear == 2024

SessionInit ==
    [authenticated |-> FALSE, user_id |-> NoUser, page |-> "login",
     show_add_expense_form |-> FALSE, show_edit_expense_form |-> FALSE,
     edit_expense_id |-> 0, show_set_budget_form |-> FALSE,
     selected_month |-> CurrentMonth, selected_year |-> CurrentYear]

NoData == [amount |-> 0, description |-> "", category |-> "", date |-> <<>>]

\* a widget event: its kind, and the row id, the form data or the number it carries
Event(kind, id, data, n) == [kind |-> kind, id |-> id, data |-> data, n |-> n]

NoEvent == Event("none", 0, NoData, 0)

WriteFlagsInit ==
    [expense_added |-> FALSE, budget_set |-> FALSE,
     expense_deleted |-> FALSE, expense_updated |-> FALSE]

----------------------------------------------------------------------------
(* Ledger store: expenses *)

\* mutant: the WHERE clause without its user_id test
get_expenses_where_any_user(row, current_user_id, month, year) ==
    IF year # 0 /\ month # 0
    THEN sqlite_strftime_Ym(row.date) = Fmt4(year) \o <<"-">> \o Fmt2(month)
    ELSE IF year # 0
         THEN sqlite_strftime_Y(row.date) = Fmt4(year)
         ELSE TRUE

\* mutant: the month branch lost, a year filters by "%Y" whatever the month
get_expenses_where_month_ignored(row, current_user_id, month, year) ==
    /\ row.user_id = current_user_id
    /\ IF year # 0 THEN sqlite_strftime_Y(row.date) = Fmt4(year) ELSE TRUE

\* the WHERE clause get_expenses builds from its arguments
get_expenses_where(row, current_user_id, month, year) ==
    /\ row.user_id = current_user_id
    /\ IF year # 0 /\ month # 0
       THEN sqlite_strftime_Ym(row.date) = Fmt4(year) \o <<"-">> \o Fmt2(month)
       ELSE IF year # 0
            THEN sqlite_strftime_Y(row.date) = Fmt4(year)
            ELSE TRUE

\* ORDER BY timestamp DESC; rows of equal timestamp come in either order
get_expenses_order(before, after) == before.timestamp >= after.timestamp

\* the dict get_expenses builds of a row
expense_dict(row) ==
    [id |-> row.id, amount |-> row.amount, description |-> row.description,
     category |-> row.category, date |-> row.date, timestamp |-> row.timestamp]

\* every list the uncached get_expenses can return on the table `table`
get_expenses(table, current_user_id, month, year) ==
    IF current_user_id = NoUser THEN { <<>> }
    ELSE LET rows == { r \in table : get_expenses_where(r, current_user_id, month, year) }
             n == Cardinality(rows)
         IN { [i \in 1..n |-> expense_dict(f[i])] :
                f \in { g \in [1..n -> rows] :
                          /\ \A i, j \in 1..n : i # j => g[i] # g[j]
                          /\ \A i \in 1..(n - 1) : get_expenses_order(g[i], g[i + 1]) } }

SetMaxOr0(S) == IF S = {} THEN 0 ELSE CHOOSE x \in S : \A y \in S : y <= x

\* mutant: INTEGER PRIMARY KEY without AUTOINCREMENT, the largest rowid in the
\* table plus one
autoincrement_id_from_table(table, seq) == SetMaxOr0({ r.id : r \in table }) + 1

\* id INTEGER PRIMARY KEY AUTOINCREMENT: one more than the largest id ever
\* assigned, which sqlite_sequence keeps
autoincrement_id(table, seq) == seq + 1

\* the row INSERT INTO expenses adds
add_expense_row(id, expense_data, current_user_id, ts) ==
    [id |-> id, user_id |-> current_user_id, amount |-> expense_data.amount,
     description |-> expense_data.description, category |-> expense_data.category,
     date |-> expense_data.date, timestamp |-> ts]

add_expense(expense_data, current_user_id, ts, store_ok) ==
    /\ lastCall' = [op |-> "add_expense", id |-> 0, user |-> current_user_id]
    /\ IF current_user_id = NoUser
       THEN /\ message' = MsgNoUser
            /\ UNCHANGED <<expenses, expenses_seq, write_flags>>
       ELSE IF store_ok
            THEN /\ expenses_seq' = expenses_seq + 1
                 /\ expenses' = expenses \cup
                       { add_expense_row(autoincrement_id(expenses, expenses_seq),
                                         expense_data, current_user_id, ts) }
                 /\ message' = MsgAdded
                 /\ write_flags' = [write_flags EXCEPT !.expense_added = TRUE]
            ELSE /\ message' = MsgAddError
                 /\ UNCHANGED <<expenses, expenses_seq, write_flags>>
    /\ UNCHANGED <<users, users_seq, budget, ret>>

\* mutant: WHERE id = ? alone, the ownership test dropped
owned_row_where_id_only(row, expense_id, current_user_id) ==
    row.id = expense_id

\* mutant: WHERE user_id = ? alone, the id test dropped
owned_row_where_user_only(row, expense_id, current_user_id) ==
    row.user_id = current_user_id

\* the WHERE clause of the UPDATE and of the DELETE
owned_row_where(row, expense_id, current_user_id) ==
    row.id = expense_id /\ row.user_id = current_user_id

\* mutant: REPLACE INTO expenses (id, user_id, amount, description, category,
\* date): the row is written anew and its timestamp is NULL
update_expense_set_row_replaced(row, expense_data) ==
    [id |-> row.id, user_id |-> row.user_id, amount |-> expense_data.amount,
     description |-> expense_data.description, category |-> expense_data.category,
     date |-> expense_data.date, timestamp |-> 0]

\* UPDATE expenses SET amount, description, category, date
update_expense_set(row, expense_data) ==
    [row EXCEPT !.amount = expense_data.amount,
                !.description = expense_data.description,
                !.category = expense_data.category,
                !.date = expense_data.date]

update_expense(expense_id, expense_data, current_user_id, store_ok) ==
    /\ lastCall' = [op |-> "update_expense", id |-> expense_id, user |-> current_user_id]
    /\ IF current_user_id = NoUser
       THEN /\ message' = MsgNoUser
            /\ UNCHANGED <<expenses, write_flags>>
       ELSE IF store_ok
            THEN LET hit == { r \in expenses : owned_row_where(r, expense_id, current_user_id) }
                 IN /\ expenses' = (expenses \ hit) \cup
                                     { update_expense_set(r, expense_data) : r \in hit }
                    /\ IF Cardinality(hit) > 0
                       THEN /\ message' = MsgUpdated
                            /\ write_flags' = [write_flags EXCEPT !.expense_updated = TRUE]
                       ELSE /\ message' = MsgUpdateNotFound
                            /\ UNCHANGED write_flags
            ELSE /\ message' = MsgUpdateError
                 /\ UNCHANGED <<expenses, write_flags>>
    /\ UNCHANGED <<users, users_seq, expenses_seq, budget, ret>>

delete_expense(expense_id, current_user_id, store_ok) ==
    /\ lastCall' = [op |-> "delete_expense", id |-> expense_id, user |-> current_user_id]
    /\ IF current_user_id = NoUser
       THEN /\ message' = MsgNoUser
            /\ UNCHANGED <<expenses, write_flags>>
       ELSE IF store_ok
            THEN LET hit == { r \in expenses : owned_row_where(r, expense_id, current_user_id) }
                 IN /\ expenses' = expenses \ hit
                    /\ IF Cardinality(hit) > 0
                       THEN /\ message' = MsgDeleted
                            /\ write_flags' = [write_flags EXCEPT !.expense_deleted = TRUE]
                       ELSE /\ message' = MsgDeleteNotFound
                            /\ UNCHANGED write_flags
            ELSE /\ message' = MsgDeleteError
                 /\ UNCHANGED <<expenses, write_flags>>
    /\ UNCHANGED <<users, users_seq, expenses_seq, budget, ret>>

----------------------------------------------------------------------------
(* Ledger store: budget *)

\* the amounts the budget form hands over
BudgetAmounts == {1000, 1500}

\* the empty dict get_budget returns when the user has no row
NoBudget == [has |-> FALSE, amount |-> 0, lastUpdated |-> 0]

\* every dict the uncached get_budget can return on the table `table`
\* (fetchone: one of the rows the WHERE clause selects)
get_budget(table, current_user_id) ==
    IF current_user_id = NoUser THEN { NoBudget }
    ELSE LET rows == { r \in table : r.user_id = current_user_id }
         IN IF rows = {} THEN { NoBudget }
            ELSE { [has |-> TRUE, amount |-> r.amount, lastUpdated |-> r.last_updated] :
                     r \in rows }

\* mutant: a plain INSERT into a table without the primary key
insert_or_replace_budget_no_key(table, row) == table \cup {row}

\* INSERT OR REPLACE INTO budget, user_id being the PRIMARY KEY: the row of the
\* same user_id is deleted, then the new row is inserted
insert_or_replace_budget(table, row) ==
    (table \ { r \in table : r.user_id = row.user_id }) \cup {row}

set_budget(amount, current_user_id, ts, store_ok) ==
    /\ lastCall' = [op |-> "set_budget", id |-> 0, user |-> current_user_id]
    /\ IF current_user_id = NoUser
       THEN /\ message' = MsgNoUser
            /\ UNCHANGED <<budget, write_flags>>
       ELSE IF store_ok
            THEN /\ budget' = insert_or_replace_budget(budget,
                                 [user_id |-> current_user_id, amount |-> amount,
                                  last_updated |-> ts])
                 /\ message' = MsgBudgetSet
                 /\ write_flags' = [write_flags EXCEPT !.budget_set = TRUE]
            ELSE /\ message' = MsgBudgetError
                 /\ UNCHANGED <<budget, write_flags>>
    /\ UNCHANGED <<users, users_seq, expenses, expenses_seq, ret>>

----------------------------------------------------------------------------
(* Credential store *)

\* usernames typed into the forms
Usernames == Users

\* passwords typed into the forms, as sequences of code points:
\* "passwd", "pass" + U+00E9 + "1", "pass" + U+00C3 U+00A9 + "1"
Passwords == { <<112, 97, 115, 115, 119, 100>>,
               <<112, 97, 115, 115, 233, 49>>,
               <<112, 97, 115, 115, 195, 169, 49>> }

\* the salts gensalt() can draw
Salts == {1, 2}

\* str.encode('utf-8') of one code point below U+0800
utf8_encode_char(c) ==
    IF c < 128 THEN <<c>> ELSE <<192 + (c \div 64), 128 + (c % 64)>>

RECURSIVE utf8_encode(_)
\* str.encode('utf-8')
utf8_encode(str) ==
    IF str = <<>> THEN <<>>
    ELSE utf8_encode_char(Head(str)) \o utf8_encode(Tail(str))

\* bcrypt.hashpw(password, salt): the salt and a digest that stands for the
\* pair it was computed from (no two pairs share a digest); the ASCII text of
\* it, .decode('utf-8'), is the value stored and is written as the same record
hashpw(password_bytes, salt) ==
    [salt |-> salt, digest |-> <<salt, password_bytes>>]

\* bcrypt.checkpw(password, hashed_password): hash again with the salt of the
\* stored hash and compare
checkpw(password_bytes, hashed_password) ==
    hashpw(password_bytes, hashed_password.salt) = hashed_password

\* mutant: no UNIQUE constraint on users.username
username_taken_never(table, username) == FALSE

\* the UNIQUE constraint on users.username (binary, case-sensitive comparison)
username_taken(table, username) == \E r \in table : r.username = username

register_user(username, password, salt, store_ok) ==
    LET hashed_password == hashpw(utf8_encode(password), salt)
    IN /\ lastCall' = [op |-> "register_user", id |-> 0, user |-> username]
       /\ IF ~store_ok
          THEN \* except Exception
               /\ message' = MsgRegisterError
               /\ ret' = FALSE
               /\ UNCHANGED <<users, users_seq>>
          ELSE IF username_taken(users, username)
               THEN \* except sqlite3.IntegrityError
                    /\ message' = MsgNone
                    /\ ret' = FALSE
                    /\ UNCHANGED <<users, users_seq>>
               ELSE /\ users_seq' = users_seq + 1
                    /\ users' = users \cup { [id |-> users_seq + 1, username |-> username,
                                              password |-> hashed_password] }
                    /\ message' = MsgNone
                    /\ ret' = TRUE
       /\ UNCHANGED <<expenses, expenses_seq, budget, write_flags>>

\* mutant: any password is accepted once the username has a row
verify_user_result_row_found(table, username, password) ==
    \E r \in table : r.username = username

\* mutant: a username without a row is let in (True when fetchone() is None)
verify_user_result_no_row_accepted(table, username, password) ==
    \A r \in table : r.username = username => checkpw(utf8_encode(password), r.password)

\* what verify_user returns on the table `table`
verify_user_result(table, username, password) ==
    \E r \in table : /\ r.username = username
                     /\ checkpw(utf8_encode(password), r.password)

verify_user(username, password) ==
    /\ lastCall' = [op |-> "verify_user", id |-> 0, user |-> username]
    /\ ret' = verify_user_result(users, username, password)
    /\ message' = MsgNone
    /\ UNCHANGED <<users, users_seq, expenses, expenses_seq, budget, write_flags>>

\* verify_user when the store fails: connect or execute raises, nothing in
\* verify_user or in its caller catches it, and no value is returned
verify_user_raises(username) ==
    /\ lastCall' = [op |-> "verify_user", id |-> 0, user |-> username]
    /\ message' = MsgVerifyRaised
    /\ UNCHANGED <<users, users_seq, expenses, expenses_seq, budget, write_flags, ret>>

----------------------------------------------------------------------------
(* show_main_app: the budget overview *)

COLOR_SUCCESS == "#228B22"
COLOR_ERROR == "#B22222"
COLOR_WARNING == "#FFD700"

RECURSIVE sum_amounts(_)
\* sum(exp.get('amount', 0) for exp in expenses)
sum_amounts(expenses_list) ==
    IF expenses_list = <<>> THEN 0
    ELSE Head(expenses_list).amount + sum_amounts(Tail(expenses_list))

\* a quotient num / den with den > 0, and its comparison with a whole number
Ratio(num, den) == [num |-> num, den |-> den]
RatioGT(q, n) == q.num > n * q.den
RatioEq(q, r) == q.num * r.den = r.num * q.den

\* (current_budget_amount - total_spending) if current_budget_amount is not None
remaining_budget(budget_data, total_spending) ==
    IF budget_data.has
    THEN [has |-> TRUE, value |-> budget_data.amount - total_spending]
    ELSE [has |-> FALSE, value |-> 0]

\* budget_percentage: 0, or min(100, (total_spending / current_budget_amount) * 100)
\* when a budget above 0 is set
budget_percentage(budget_data, total_spending) ==
    IF budget_data.has /\ budget_data.amount # 0 /\ budget_data.amount > 0
    THEN LET q == Ratio(total_spending * 100, budget_data.amount)
         IN IF RatioGT(q, 100) THEN Ratio(100, 1) ELSE q
    ELSE Ratio(0, 1)

\* progress_color_bar, chosen from budget_percentage
progress_color_bar(percentage) ==
    LET first == COLOR_SUCCESS
        second == IF RatioGT(percentage, 75) THEN COLOR_WARNING ELSE first
    IN IF RatioGT(percentage, 100) THEN COLOR_ERROR ELSE second

\* lines 447-463 on the expenses and the budget fetched for the run
overview(v, expenses_list, budget_data) ==
    LET total == sum_amounts(expenses_list)
        pct == budget_percentage(budget_data, total)
    IN [v EXCEPT !.expenses = expenses_list,
                 !.budget_data = budget_data,
                 !.total_spending = total,
                 !.remaining_budget = remaining_budget(budget_data, total),
                 !.budget_percentage = pct,
                 !.progress_color_bar = progress_color_bar(pct)]

ViewInit ==
    [expenses |-> <<>>, budget_data |-> NoBudget, total_spending |-> 0,
     remaining_budget |-> [has |-> FALSE, value |-> 0],
     budget_percentage |-> Ratio(0, 1), progress_color_bar |-> COLOR_SUCCESS,
     expenses_filtered |-> <<>>, sorted_category_spending |-> <<>>,
     alert |-> "", refreshed |-> FALSE]

----------------------------------------------------------------------------
(* show_main_app: spending by category *)

\* category_spending_data_filtered[category] = ....get(category, 0) + amount;
\* the dict is the sequence of its items, a new key goes to the end
category_spending_add(d, category, amount) ==
    IF \E i \in 1..Len(d) : d[i].category = category
    THEN [i \in 1..Len(d) |->
            IF d[i].category = category THEN [d[i] EXCEPT !.amount = @ + amount]
            ELSE d[i]]
    ELSE Append(d, [category |-> category, amount |-> amount])

RECURSIVE category_spending_data(_, _)
\* the loop of lines 677-679, started on the dict d
category_spending_data(d, expenses_list) ==
    IF expenses_list = << >> THEN d
    ELSE category_spending_data(
             category_spending_add(d, Head(expenses_list).category,
                                   Head(expenses_list).amount),
             Tail(expenses_list))

\* mutant: the item goes before the items of equal amount (an ascending sort
\* that is reversed afterwards)
sorted_reverse_insert_before_equal(s, item) ==
    LET k == Cardinality({ i \in 1..Len(s) : s[i].amount > item.amount })
    IN SubSeq(s, 1, k) \o <<item>> \o SubSeq(s, k + 1, Len(s))

\* one more item in a list sorted by amount, largest first: it goes behind the
\* items of larger or equal amount (sorted() is stable, with reverse=True too)
sorted_reverse_insert(s, item) ==
    LET k == Cardinality({ i \in 1..Len(s) : s[i].amount >= item.amount })
    IN SubSeq(s, 1, k) \o <<item>> \o SubSeq(s, k + 1, Len(s))

RECURSIVE sorted_reverse(_, _)
\* sorted(items, key=lambda item: item[1], reverse=True), s the part sorted so far
sorted_reverse(s, items) ==
    IF items = << >> THEN s
    ELSE sorted_reverse(sorted_reverse_insert(s, Head(items)), Tail(items))

\* lines 676-681
sorted_category_spending(expenses_list) ==
    sorted_reverse(<< >>, category_spending_data(<< >>, expenses_list))

----------------------------------------------------------------------------
(* The cached reads *)

\* @st.cache_data(ttl=30)
CACHE_TTL == 30

\* the entries of `key` that have not expired at time t
cache_hit(cache, key, t) == { e \in cache : e.key = key /\ t - e.at < CACHE_TTL }

cache_store(cache, key, value, t) ==
    { e \in cache : e.key # key } \cup { [key |-> key, value |-> value, at |-> t] }

\* get_expenses as the pages call it: the cached value of the arguments, or the
\* query's result, which is then cached; each outcome with the cache it leaves
cached_get_expenses(cache, table, current_user_id, month, year, t) ==
    LET key == <<current_user_id, month, year>>
        hit == cache_hit(cache, key, t)
    IN IF hit # {}
       THEN { [value |-> e.value, cache |-> cache] : e \in hit }
       ELSE { [value |-> v, cache |-> cache_store(cache, key, v, t)] :
                v \in get_expenses(table, current_user_id, month, year) }

\* get_budget as the pages call it
cached_get_budget(cache, table, current_user_id, t) ==
    LET hit == cache_hit(cache, current_user_id, t)
    IN IF hit # {}
       THEN { [value |-> e.value, cache |-> cache] : e \in hit }
       ELSE { [value |-> v, cache |-> cache_store(cache, current_user_id, v, t)] :
                v \in get_budget(table, current_user_id) }

\* mutant: the caches are not cleared
clear_cache_skipped(cache) == cache

\* get_expenses.clear() / get_budget.clear()
clear_cache(cache) == {}

----------------------------------------------------------------------------
(* show_login_signup *)

AlertWelcome == "Welcome"
AlertInvalidLogin == "Invalid username or password."
AlertPasswordMismatch == "Passwords do not match."
AlertShortUsername == "Username must be at least 3 characters long."
AlertShortPassword == "Password must be at least 6 characters long."
AlertAccountCreated == "Account created successfully! Please login."
AlertUsernameExists == "Username already exists. Please choose a different one."
AlertException == "Traceback"
AlertFillFields == "Please fill in all fields."

\* what the sign-up and login forms are filled with
AppUsers == {"alice"}
SignupUsernames == AppUsers \cup {"al"}
AppPasswords == { <<112, 97, 115, 115, 119, 100>>, <<112, 119>> }

\* len(signup_username)
username_len(username) ==
    CASE username = "alice" -> 5 [] username = "bob" -> 3 [] username = "al" -> 2

\* the login form submitted with (username, password)
login_submit(username, password) ==
    /\ verify_user(username, password)
    /\ IF ret'
       THEN /\ session_state' = [session_state EXCEPT !.authenticated = TRUE,
                                                      !.user_id = username,
                                                      !.page = "main_app"]
            /\ view' = [view EXCEPT !.alert = AlertWelcome]
            /\ rerun' = TRUE
       ELSE /\ view' = [view EXCEPT !.alert = AlertInvalidLogin]
            /\ UNCHANGED <<session_state, rerun>>
    /\ UNCHANGED registered

\* the login form submitted while the store fails: the exception ends the run
\* at line 387, Streamlit draws the traceback
login_submit_raises(username) ==
    /\ verify_user_raises(username)
    /\ view' = [view EXCEPT !.alert = AlertException]
    /\ UNCHANGED <<session_state, rerun, registered>>

\* the sign-up form submitted
signup_submit(username, password, confirm, salt, store_ok) ==
    IF password # confirm \/ username_len(username) < 3 \/ Len(password) < 6
    THEN /\ view' = [view EXCEPT !.alert =
                        IF password # confirm THEN AlertPasswordMismatch
                        ELSE IF username_len(username) < 3 THEN AlertShortUsername
                        ELSE AlertShortPassword]
         /\ UNCHANGED <<users, users_seq, expenses, expenses_seq, budget, write_flags,
                        message, ret, lastCall, session_state, rerun, registered>>
    ELSE /\ register_user(username, password, salt, store_ok)
         /\ registered' = IF ret' THEN registered \cup { <<username, password>> }
                          ELSE registered
         /\ view' = [view EXCEPT !.alert = IF ret' THEN AlertAccountCreated
                                           ELSE AlertUsernameExists]
         /\ UNCHANGED <<session_state, rerun>>

\* one run of the script on the login page, started by a form
show_login_signup ==
    /\ ~session_state.authenticated
    /\ pc = "idle"
    /\ \/ \E u \in AppUsers, p \in AppPasswords : login_submit(u, p)
       \/ \E u \in AppUsers : login_submit_raises(u)
       \/ \E u \in SignupUsernames, p \in AppPasswords, c \in AppPasswords,
             ok \in BOOLEAN : signup_submit(u, p, c, 1, ok)
    /\ UNCHANGED <<cache_expenses, cache_budget, now, pc, event, added, budget_sets>>

----------------------------------------------------------------------------
(* show_main_app *)

AppExpenseData == { d \in ExpenseData : d.category = "Food" }
AppBudgetAmounts == {1000}
AppMonths == {1, 2}
AppYears == {2023, 2024}

EmptyDescription ==
    [amount |-> 10, description |-> "", category |-> "Food",
     date |-> strftime_Ymd([year |-> 2024, month |-> 1, day |-> 15])]

ListIds(expenses_list) == { expenses_list[i].id : i \in 1..Len(expenses_list) }

\* datetime.strptime(exp['date'], '%Y-%m-%d').year
strptime_year(text) ==
    1000 * DigitVal(text[1]) + 100 * DigitVal(text[2])
    + 10 * DigitVal(text[3]) + DigitVal(text[4])

\* available_years: the years of the user's expenses, or the current year
available_years(all_expenses_for_years) ==
    LET ys == { strptime_year(all_expenses_for_years[i].date) :
                  i \in 1..Len(all_expenses_for_years) }
    IN IF ys = {} THEN {CurrentYear} ELSE ys

SetMax(S) == CHOOSE x \in S : \A y \in S : y <= x

\* the edit form is drawn: an id to edit, found among the expenses of the run
edit_form_rendered ==
    /\ session_state.show_edit_expense_form
    /\ session_state.edit_expense_id # 0
    /\ session_state.edit_expense_id \in ListIds(view.expenses)

\* the widget events the page of the last run offers
EnabledEvents ==
    IF rerun THEN { NoEvent }
    ELSE { NoEvent, Event("logout", 0, NoData, 0), Event("add_expense_btn", 0, NoData, 0),
           Event("set_budget_btn", 0, NoData, 0), Event("quick_add", 0, NoData, 0) }
         \cup (IF session_state.show_add_expense_form
               THEN { Event("add_submit", 0, d, 0) : d \in AppExpenseData \cup {EmptyDescription} }
                    \cup { Event("close_add", 0, NoData, 0) }
               ELSE {})
         \cup (IF session_state.show_set_budget_form
               THEN { Event("budget_submit", 0, NoData, a) : a \in AppBudgetAmounts }
                    \cup { Event("close_budget", 0, NoData, 0) }
               ELSE {})
         \cup (IF session_state.show_edit_expense_form /\ session_state.edit_expense_id # 0
               THEN { Event("edit_submit", 0, d, 0) : d \in AppExpenseData }
                    \cup { Event("close_edit", 0, NoData, 0) }
               ELSE {})
         \cup { Event("select_month", 0, NoData, m) :
                  m \in AppMonths \ {session_state.selected_month} }
         \cup { Event("select_year", 0, NoData, y) :
                  y \in AppYears \ {session_state.selected_year} }
         \cup { Event("edit_click", id, NoData, 0) : id \in ListIds(view.expenses_filtered) }
         \cup { Event("delete_click", id, NoData, 0) : id \in ListIds(view.expenses_filtered) }

any_write_flag ==
    \/ write_flags.expense_added \/ write_flags.budget_set
    \/ write_flags.expense_deleted \/ write_flags.expense_updated

\* lines 420-463: the logout button, the fetch of expenses and budget, the
\* refresh after a write, the budget overview
show_main_app_top ==
    /\ session_state.authenticated
    /\ pc = "idle"
    /\ \E e \in EnabledEvents :
         IF e.kind = "logout"
         THEN \* session state cleared, the script runs again and initializes it
              /\ session_state' = SessionInit
              /\ write_flags' = WriteFlagsInit
              /\ view' = ViewInit
              /\ UNCHANGED <<cache_expenses, cache_budget, pc, event, rerun>>
         ELSE LET u == session_state.user_id
                  m == session_state.selected_month
                  y == session_state.selected_year
              IN \E r1 \in cached_get_expenses(cache_expenses, expenses, u, m, y, now),
                    b1 \in cached_get_budget(cache_budget, budget, u, now) :
                   /\ IF any_write_flag
                      THEN \E r2 \in cached_get_expenses(clear_cache(r1.cache),
                                                         expenses, u, m, y, now),
                              b2 \in cached_get_budget(clear_cache(b1.cache),
                                                       budget, u, now) :
                             /\ cache_expenses' = r2.cache
                             /\ cache_budget' = b2.cache
                             /\ write_flags' = WriteFlagsInit
                             /\ view' = overview([view EXCEPT !.refreshed = TRUE,
                                                              !.alert = ""],
                                                 r2.value, b2.value)
                      ELSE /\ cache_expenses' = r1.cache
                           /\ cache_budget' = b1.cache
                           /\ UNCHANGED write_flags
                           /\ view' = overview([view EXCEPT !.refreshed = FALSE,
                                                            !.alert = ""],
                                               r1.value, b1.value)
                   /\ pc' = "body"
                   /\ event' = e
                   /\ rerun' = FALSE
                   /\ UNCHANGED session_state
    /\ UNCHANGED <<users, users_seq, expenses, expenses_seq, budget, now,
                   message, ret, lastCall, added, budget_sets, registered>>

\* the buttons above the analytics that only switch a form on or off
body_session(ss, e) ==
    CASE e.kind = "add_expense_btn" ->
            [ss EXCEPT !.show_add_expense_form = TRUE, !.show_edit_expense_form = FALSE,
                       !.edit_expense_id = 0]
      [] e.kind = "set_budget_btn" -> [ss EXCEPT !.show_set_budget_form = TRUE]
      [] e.kind = "close_add" -> [ss EXCEPT !.show_add_expense_form = FALSE]
      [] e.kind = "close_budget" -> [ss EXCEPT !.show_set_budget_form = FALSE]
      [] e.kind = "close_edit" /\ edit_form_rendered ->
            [ss EXCEPT !.show_edit_expense_form = FALSE, !.edit_expense_id = 0]
      [] OTHER -> ss

\* lines 646-673: the years to choose from, the two selectors, the filtered fetch;
\* each outcome with the session state and the cache it leaves
spending_analytics(ss, e, cache) ==
    LET u == ss.user_id
    IN UNION {
         LET years == available_years(r1.value)
             month == IF e.kind = "select_month" THEN e.n ELSE ss.selected_month
             year == IF e.kind = "select_year" /\ e.n \in years THEN e.n
                     ELSE IF ss.selected_year \in years THEN ss.selected_year
                     ELSE SetMax(years)
         IN { [session_state |-> [ss EXCEPT !.selected_month = month,
                                            !.selected_year = year],
               cache |-> r2.cache,
               expenses_filtered |-> r2.value] :
                r2 \in cached_get_expenses(r1.cache, expenses, u, month, year, now) } :
         r1 \in cached_get_expenses(cache, expenses, u, 0, 0, now) }

store_vars == <<users, users_seq, expenses, expenses_seq, budget, write_flags,
                message, ret, lastCall>>

\* lines 497-745: the rest of the run, for the event it was started by
show_main_app_body ==
    /\ pc = "body"
    /\ pc' = "idle"
    /\ event' = NoEvent
    /\ UNCHANGED <<cache_budget, now, added, budget_sets, registered>>
    /\ LET e == event
           ss == session_state
           u == session_state.user_id
       IN \/ /\ e.kind = "quick_add"
             /\ session_state' = [ss EXCEPT !.show_add_expense_form = TRUE,
                                            !.show_edit_expense_form = FALSE]
             /\ rerun' = TRUE
             /\ UNCHANGED <<store_vars, cache_expenses, view>>
          \/ /\ e.kind = "add_submit" /\ e.data.description # ""
             /\ expenses_seq < MaxAppExpenses
             /\ \E ok \in BOOLEAN : add_expense(e.data, u, now, ok)
             /\ session_state' = [ss EXCEPT !.show_add_expense_form = FALSE]
             /\ rerun' = TRUE
             /\ UNCHANGED <<cache_expenses, view>>
          \/ /\ e.kind = "budget_submit"
             /\ \E ok \in BOOLEAN : set_budget(e.n, u, now, ok)
             /\ session_state' = [ss EXCEPT !.show_set_budget_form = FALSE]
             /\ rerun' = TRUE
             /\ UNCHANGED <<cache_expenses, view>>
          \/ /\ e.kind = "edit_submit" /\ edit_form_rendered
             /\ \E ok \in BOOLEAN : update_expense(ss.edit_expense_id, e.data, u, ok)
             /\ session_state' = [ss EXCEPT !.show_edit_expense_form = FALSE,
                                            !.edit_expense_id = 0]
             /\ rerun' = TRUE
             /\ UNCHANGED <<cache_expenses, view>>
          \/ /\ e.kind \in {"none", "add_expense_btn", "set_budget_btn", "close_add",
                            "close_budget", "close_edit", "select_month", "select_year"}
                \/ (e.kind = "add_submit" /\ e.data.description = "")
                \/ (e.kind = "edit_submit" /\ ~edit_form_rendered)
             /\ \E a \in spending_analytics(body_session(ss, e), e, cache_expenses) :
                  /\ session_state' = a.session_state
                  /\ cache_expenses' = a.cache
                  /\ view' = [view EXCEPT !.expenses_filtered = a.expenses_filtered,
                                          !.sorted_category_spending =
                                              sorted_category_spending(a.expenses_filtered),
                                          !.alert = IF e.kind = "add_submit"
                                                    THEN AlertFillFields ELSE @]
             /\ rerun' = FALSE
             /\ UNCHANGED store_vars
          \/ /\ e.kind = "edit_click"
             /\ \E a \in spending_analytics(ss, e, cache_expenses) :
                  /\ cache_expenses' = a.cache
                  /\ view' = [view EXCEPT !.expenses_filtered = a.expenses_filtered,
                                          !.sorted_category_spending =
                                              sorted_category_spending(a.expenses_filtered)]
                  /\ IF e.id \in ListIds(a.expenses_filtered)
                     THEN /\ session_state' =
                               [a.session_state EXCEPT !.show_edit_expense_form = TRUE,
                                                       !.edit_expense_id = e.id,
                                                       !.show_add_expense_form = FALSE]
                          /\ rerun' = TRUE
                     ELSE /\ session_state' = a.session_state
                          /\ rerun' = FALSE
             /\ UNCHANGED store_vars
          \/ /\ e.kind = "delete_click"
             /\ \E a \in spending_analytics(ss, e, cache_expenses) :
                  /\ session_state' = a.session_state
                  /\ cache_expenses' = a.cache
                  /\ view' = [view EXCEPT !.expenses_filtered = a.expenses_filtered,
                                          !.sorted_category_spending =
                                              sorted_category_spending(a.expenses_filtered)]
                  /\ IF e.id \in ListIds(a.expenses_filtered)
                     THEN \E ok \in BOOLEAN : delete_expense(e.id, u, ok)
                     ELSE UNCHANGED store_vars
             /\ rerun' = FALSE

\* time passes between two runs
TickStep == CACHE_TTL

Tick ==
    /\ pc = "idle"
    /\ now + TickStep <= MaxNow
    /\ now' = now + TickStep
    /\ UNCHANGED <<users, users_seq, expenses, expenses_seq, budget, session_state,
                   write_flags, cache_expenses, cache_budget, view, pc, event, rerun,
                   message, ret, lastCall, added, budget_sets, registered>>

----------------------------------------------------------------------------
(* Specifications *)

Init ==
    /\ users = {}
    /\ users_seq = 0
    /\ expenses = {}
    /\ expenses_seq = 0
    /\ budget = {}
    /\ session_state = SessionInit
    /\ write_flags = WriteFlagsInit
    /\ cache_expenses = {}
    /\ cache_budget = {}
    /\ now = 0
    /\ view = ViewInit
    /\ pc = "idle"
    /\ event = NoEvent
    /\ rerun = FALSE
    /\ message = MsgNone
    /\ ret = FALSE
    /\ lastCall = NoCall
    /\ added = {}
    /\ budget_sets = [u \in Users |-> <<>>]
    /\ registered = {}

\* the ids a caller can pass: every id ever assigned and one never assigned
ExpenseIds == 1..(MaxExpenses + 1)

AddExpense ==
    \E d \in ExpenseData, u \in Users \cup {NoUser}, ts \in Times, ok \in BOOLEAN :
        /\ expenses_seq < MaxExpenses
        /\ add_expense(d, u, ts, ok)
        /\ UNCHANGED <<session_state, app_vars, added, budget_sets, registered>>

UpdateExpense ==
    \E id \in ExpenseIds, d \in ExpenseData, u \in Users \cup {NoUser}, ok \in BOOLEAN :
        update_expense(id, d, u, ok) /\ UNCHANGED <<session_state, app_vars, added, budget_sets, registered>>

DeleteExpense ==
    \E id \in ExpenseIds, u \in Users \cup {NoUser}, ok \in BOOLEAN :
        delete_expense(id, u, ok) /\ UNCHANGED <<session_state, app_vars, added, budget_sets, registered>>

NextLedger == AddExpense \/ UpdateExpense \/ DeleteExpense

SpecLedger == Init /\ [][NextLedger]_vars

\* add_expense calls alone, each successful one written to the history
AddExpenseLogged ==
    \E d \in ExpenseData, u \in Users \cup {NoUser}, ts \in Times, ok \in BOOLEAN :
        /\ expenses_seq < MaxAdded
        /\ add_expense(d, u, ts, ok)
        /\ added' = IF message' = MsgAdded
                    THEN added \cup { [id |-> r.id, user |-> u,
                                       expense_data |-> d, timestamp |-> ts] :
                                      r \in expenses' \ expenses }
                    ELSE added
        /\ UNCHANGED <<session_state, app_vars, budget_sets, registered>>

NextAdd == AddExpenseLogged

SpecAdd == Init /\ [][NextAdd]_vars

\* add_expense and delete_expense calls, the successful adds written to the
\* history, which keeps the rows that were deleted since
AddExpenseLoggedFew == expenses_seq < MaxExpenses /\ AddExpenseLogged

DeleteExpenseLogged ==
    \E id \in ExpenseIds, u \in Users \cup {NoUser}, ok \in BOOLEAN :
        delete_expense(id, u, ok)
        /\ UNCHANGED <<session_state, app_vars, added, budget_sets, registered>>

NextIds == AddExpenseLoggedFew \/ DeleteExpenseLogged

SpecIds == Init /\ [][NextIds]_vars

\* set_budget calls alone, each successful one written to the history
SetBudget ==
    \E a \in BudgetAmounts, u \in Users \cup {NoUser}, ts \in Times, ok \in BOOLEAN :
        /\ u \in Users => Len(budget_sets[u]) < MaxBudgetSets
        /\ set_budget(a, u, ts, ok)
        /\ budget_sets' = IF message' = MsgBudgetSet
                          THEN [budget_sets EXCEPT ![u] = Append(@, a)]
                          ELSE budget_sets
        /\ UNCHANGED <<session_state, app_vars, added, registered>>

NextBudget == SetBudget

SpecBudget == Init /\ [][NextBudget]_vars

\* set_budget called with any number, as a caller other than the budget form may
SetBudgetArguments == {-5, 0, 1000}

SetBudgetAnyAmount ==
    \E a \in SetBudgetArguments, u \in Users, ts \in Times, ok \in BOOLEAN :
        /\ Len(budget_sets[u]) < MaxBudgetSets
        /\ set_budget(a, u, ts, ok)
        /\ budget_sets' = IF message' = MsgBudgetSet
                          THEN [budget_sets EXCEPT ![u] = Append(@, a)]
                          ELSE budget_sets
        /\ UNCHANGED <<session_state, app_vars, added, registered>>

NextBudgetAnyAmount == SetBudgetAnyAmount

SpecBudgetAnyAmount == Init /\ [][NextBudgetAnyAmount]_vars

\* the credential store: each successful registration written to the history
RegisterUser ==
    \E u \in Usernames, p \in Passwords, salt \in Salts, ok \in BOOLEAN :
        /\ register_user(u, p, salt, ok)
        /\ registered' = IF ret' THEN registered \cup { <<u, p>> } ELSE registered
        /\ UNCHANGED <<session_state, app_vars, added, budget_sets>>

VerifyUser ==
    \E u \in Usernames, p \in Passwords :
        /\ verify_user(u, p)
        /\ UNCHANGED <<session_state, app_vars, added, budget_sets, registered>>

NextAuth == RegisterUser \/ VerifyUser

SpecAuth == Init /\ [][NextAuth]_vars

\* the budget overview as a function of the fetched expenses and budget
OverviewAmounts == {50, 75, 76, 100, 250}
OverviewBudgets == {100, 200, 1000}

OverviewExpense(id, amount) ==
    [id |-> id, amount |-> amount, description |-> "Coffee", category |-> "Food",
     date |-> strftime_Ymd([year |-> 2024, month |-> 1, day |-> 15]), timestamp |-> 1]

OverviewLists ==
    { <<>> } \cup { <<OverviewExpense(1, a)>> : a \in OverviewAmounts }
             \cup { <<OverviewExpense(1, a), OverviewExpense(2, b)>> :
                      a \in OverviewAmounts, b \in OverviewAmounts }

InitOverview ==
    /\ users = {}
    /\ users_seq = 0
    /\ expenses = {}
    /\ expenses_seq = 0
    /\ budget = {}
    /\ session_state = SessionInit
    /\ write_flags = WriteFlagsInit
    /\ \E l \in OverviewLists :
       \E b \in { NoBudget } \cup { [has |-> TRUE, amount |-> a, lastUpdated |-> 1] :
                                     a \in OverviewBudgets } :
           view = [ViewInit EXCEPT !.expenses = l, !.budget_data = b]
    /\ cache_expenses = {}
    /\ cache_budget = {}
    /\ now = 0
    /\ pc = "fetched"
    /\ event = NoEvent
    /\ rerun = FALSE
    /\ message = MsgNone
    /\ ret = FALSE
    /\ lastCall = NoCall
    /\ added = {}
    /\ budget_sets = [u \in Users |-> <<>>]
    /\ registered = {}

ComputeOverview ==
    /\ pc = "fetched"
    /\ view' = overview(view, view.expenses, view.budget_data)
    /\ pc' = "displayed"
    /\ UNCHANGED <<users, users_seq, expenses, expenses_seq, budget, session_state,
                   write_flags, cache_expenses, cache_budget, now, event, rerun,
                   message, ret, lastCall, added, budget_sets, registered>>

NextOverview == ComputeOverview

SpecOverview == InitOverview /\ [][NextOverview]_vars

\* the spending by category as a function of the filtered expenses
CategoryNames == {"Food", "Transport", "Rent"}
CategoryAmounts == {5, 7, 10}

CategoryExpense(id, category, amount) ==
    [id |-> id, amount |-> amount, description |-> "Coffee", category |-> category,
     date |-> strftime_Ymd([year |-> 2024, month |-> 1, day |-> 15]), timestamp |-> 1]

\* the lists of at most MaxListLen expenses, the i-th with id i
CategoryLists ==
    UNION { { [i \in 1..n |-> CategoryExpense(i, f[i][1], f[i][2])] :
                f \in [1..n -> CategoryNames \X CategoryAmounts] } : n \in 0..MaxListLen }

InitCategories ==
    /\ users = {}
    /\ users_seq = 0
    /\ expenses = {}
    /\ expenses_seq = 0
    /\ budget = {}
    /\ session_state = SessionInit
    /\ write_flags = WriteFlagsInit
    /\ \E l \in CategoryLists : view = [ViewInit EXCEPT !.expenses_filtered = l]
    /\ cache_expenses = {}
    /\ cache_budget = {}
    /\ now = 0
    /\ pc = "filtered"
    /\ event = NoEvent
    /\ rerun = FALSE
    /\ message = MsgNone
    /\ ret = FALSE
    /\ lastCall = NoCall
    /\ added = {}
    /\ budget_sets = [u \in Users |-> <<>>]
    /\ registered = {}

ComputeCategories ==
    /\ pc = "filtered"
    /\ view' = [view EXCEPT !.sorted_category_spending =
                                sorted_category_spending(view.expenses_filtered)]
    /\ pc' = "charted"
    /\ UNCHANGED <<users, users_seq, expenses, expenses_seq, budget, session_state,
                   write_flags, cache_expenses, cache_budget, now, event, rerun,
                   message, ret, lastCall, added, budget_sets, registered>>

NextCategories == ComputeCategories

SpecCategories == InitCategories /\ [][NextCategories]_vars

\* the application: one browser session
NextApp == show_login_signup \/ show_main_app_top \/ show_main_app_body \/ Tick

SpecApp == Init /\ [][NextApp]_vars

----------------------------------------------------------------------------
(* Claims about the ledger store *)

\* the entries a get_expenses result may hold for `user`, by the history of adds
AddedDicts(user) ==
    { [id |-> a.id, amount |-> a.expense_data.amount,
       description |-> a.expense_data.description,
       category |-> a.expense_data.category, date |-> a.expense_data.date,
       timestamp |-> a.timestamp] : a \in { b \in added : b.user = user } }

Range(seq) == { seq[i] : i \in 1..Len(seq) }

\* C1: after any sequence of add_expense calls by any mix of users, every list
\* get_expenses(U) can return (no month, no year) holds exactly the rows added
\* for U, each once, in descending timestamp order, and no row of another user.
C1_GetExpensesReturnsAddedRows ==
    \A u \in Users : \A r \in get_expenses(expenses, u, 0, 0) :
        /\ Range(r) = AddedDicts(u)
        /\ Len(r) = Cardinality(AddedDicts(u))
        /\ \A i \in 1..(Len(r) - 1) : r[i].timestamp >= r[i + 1].timestamp
        /\ \A a \in added : a.user # u => \A i \in 1..Len(r) : r[i].id # a.id

\* C1 witness: one user has added two rows at different instants, the earlier
\* one last, and the other user has added a row too.
C1_Witness ==
    \E a, b, c \in added :
        /\ a.user = b.user /\ a.id < b.id /\ a.timestamp > b.timestamp
        /\ c.user # a.user

\* C2: update_expense(id, data, U) on a row owned by V # U changes no row and
\* leaves expense_updated as it was, and unless the store raised it reports
\* "not found or no permission", the message an id that does not exist gets.
C2_UpdateOfForeignRowIsRefused ==
    [][\A id \in ExpenseIds, u \in Users :
         lastCall' = [op |-> "update_expense", id |-> id, user |-> u]
         => /\ (\E r \in expenses : r.id = id /\ r.user_id # u)
               => /\ expenses' = expenses
                  /\ write_flags'.expense_updated = write_flags.expense_updated
                  /\ message' \in {MsgUpdateNotFound, MsgUpdateError}
            /\ (\A r \in expenses : r.id # id)
               => /\ expenses' = expenses
                  /\ message' \in {MsgUpdateNotFound, MsgUpdateError}]_vars

\* C2 witness: an update aimed at another user's row was refused while the
\* flag was still false.
C2_Witness ==
    /\ lastCall.op = "update_expense"
    /\ message = MsgUpdateNotFound
    /\ \E r \in expenses : r.id = lastCall.id /\ r.user_id # lastCall.user
    /\ ~write_flags.expense_updated

\* C3: delete_expense(id, U) on a row owned by U removes that row and no other;
\* the same call again reports "not found or no permission" and changes neither
\* the expenses table nor expense_deleted.
C3_DeleteRemovesOneRowOnce ==
    [][\A id \in ExpenseIds, u \in Users :
         lastCall' = [op |-> "delete_expense", id |-> id, user |-> u]
         => /\ \A r \in expenses :
                 (r.id = id /\ r.user_id = u /\ message' # MsgDeleteError)
                 => /\ expenses' = expenses \ {r}
                    /\ message' = MsgDeleted
            /\ (lastCall = lastCall' /\ message = MsgDeleted)
               => /\ expenses' = expenses
                  /\ write_flags' = write_flags
                  /\ message' \in {MsgDeleteNotFound, MsgDeleteError}]_vars

\* C3 witness: a delete of an id that was assigned and is gone was answered
\* "not found" while another row is still in the table.
C3_Witness ==
    /\ lastCall.op = "delete_expense"
    /\ message = MsgDeleteNotFound
    /\ lastCall.id <= expenses_seq
    /\ \A r \in expenses : r.id # lastCall.id
    /\ expenses # {}
    /\ write_flags.expense_deleted

\* C14: a successful update_expense(id, data, U) leaves in the table a row of
\* the same id, user_id and timestamp as the targeted row, carrying the
\* amount, description, category and date of data, and every other row as it
\* was.
C14_UpdateChangesOnlyTheFourColumns ==
    [][\A id \in ExpenseIds, u \in Users :
         (lastCall' = [op |-> "update_expense", id |-> id, user |-> u]
          /\ message' = MsgUpdated)
         => \E r \in expenses, d \in ExpenseData :
              /\ r.id = id /\ r.user_id = u
              /\ expenses' = (expenses \ {r}) \cup
                   { [id |-> r.id, user_id |-> r.user_id, timestamp |-> r.timestamp,
                      amount |-> d.amount, description |-> d.description,
                      category |-> d.category, date |-> d.date] }
              /\ expenses_seq' = expenses_seq]_vars

\* C14 witness: an update succeeded on one of two rows of the same user, and
\* the two rows now differ in date
C14_Witness ==
    /\ lastCall.op = "update_expense"
    /\ message = MsgUpdated
    /\ \E r, o \in expenses :
         /\ r.id = lastCall.id /\ o.id # r.id
         /\ o.user_id = r.user_id /\ o.timestamp # r.timestamp
         /\ o.date # r.date

\* C17: expense ids are never reused: the id add_expense assigns is larger
\* than every id assigned before, those of rows deleted since included, so
\* the row an id names in the table is the row that was created under it.
C17_IdsNeverReused ==
    [][/\ \A a \in added' \ added : \A b \in added : a.id > b.id
       /\ \A r \in expenses' : \A a \in added' :
            a.id = r.id => /\ a.user = r.user_id
                           /\ a.timestamp = r.timestamp
                           /\ a.expense_data.description = r.description]_vars

\* C17 witness: row 1 was deleted, and the row added after that has id 2
C17_Witness ==
    /\ \E a \in added : a.id = 1
    /\ \A r \in expenses : r.id # 1
    /\ \E r \in expenses : r.id = 2
    /\ lastCall.op = "add_expense" /\ message = MsgAdded

\* the date text lies in the period (month, year); 0 is "not given"
DatesOfMonth ==
    [year \in Years \ {0} |->
        [m \in 1..12 |->
            { strftime_Ymd([year |-> year, month |-> m, day |-> d]) : d \in 1..31 }]]

InPeriod(date, month, year) ==
    IF year # 0 /\ month # 0
    THEN date \in DatesOfMonth[year][month]
    ELSE IF year # 0
         THEN \E m \in 1..12 : date \in DatesOfMonth[year][m]
         ELSE TRUE

\* C7: get_expenses(U, month, year) returns exactly U's rows dated in that month
\* of that year when both are given, exactly U's rows dated in that year when
\* only the year is given, all of U's rows when neither is; it always returns a
\* list, the empty one when nothing matches.
C7_GetExpensesFilters ==
    \A u \in Users, month \in Months, year \in Years :
        (year # 0 \/ month = 0)
        => LET got == get_expenses(expenses, u, month, year)
               want == { expense_dict(r) :
                           r \in { x \in expenses : /\ x.user_id = u
                                                    /\ InPeriod(x.date, month, year) } }
           IN /\ got # {}
              /\ \A r \in got : Range(r) = want /\ Len(r) = Cardinality(want)

\* C7 witness: a user holds a row of January 2024 and a row of February 2024,
\* so the month filter, the year filter and no filter give different lists.
C7_Witness ==
    \E u \in Users :
        /\ \E r \in get_expenses(expenses, u, 1, 2024) : Len(r) = 1
        /\ \E r \in get_expenses(expenses, u, 0, 2024) : Len(r) = 2
        /\ get_expenses(expenses, u, 12, 2023) = { <<>> }

\* C4: the budget table never holds two rows of one user_id, and get_budget(U)
\* read from the store returns the amount of the last set_budget(U) that
\* succeeded (the empty dict while there was none).
C4_OneBudgetRowPerUser ==
    \A u \in Users :
        /\ Cardinality({ r \in budget : r.user_id = u }) <= 1
        /\ \A b \in get_budget(budget, u) :
              IF budget_sets[u] = <<>>
              THEN b = NoBudget
              ELSE b.has /\ b.amount = budget_sets[u][Len(budget_sets[u])]

\* C4 witness: a user's budget was set to 1000 and then to 1500, and one row
\* with 1500 is what the table holds for that user.
C4_Witness ==
    \E u \in Users :
        /\ budget_sets[u] = <<1000, 1500>>
        /\ { r.amount : r \in { x \in budget : x.user_id = u } } = {1500}

\* C11: set_budget with a non-positive amount is rejected and leaves the budget
\* table unchanged, only a positive amount is upserted: the table, empty at
\* first, never holds a row whose amount is zero or negative, and no call
\* with such an amount is answered "Budget set successfully!".
C11_OnlyPositiveAmountUpserted ==
    /\ \A r \in budget : r.amount > 0
    /\ \A u \in Users : \A i \in 1..Len(budget_sets[u]) : budget_sets[u][i] > 0

----------------------------------------------------------------------------
(* Claims about the credential store *)

\* C5: verify_user(username, password) returns true exactly when
\* register_user accepted that username with that password: true for the
\* registered password, false for every other password and for a username never
\* registered.
C5_VerifyAcceptsRegisteredPasswordOnly ==
    [][\A u \in Usernames, p \in Passwords :
         verify_user(u, p) => (ret' = (<<u, p>> \in registered))]_vars

\* C5 witness: a registered user was verified after the other password of the
\* pair that differs in one non-ASCII character was refused a registration.
C5_Witness ==
    /\ lastCall.op = "verify_user"
    /\ ret = TRUE
    /\ <<lastCall.user, <<112, 97, 115, 115, 233, 49>>>> \in registered
    /\ \E v \in Usernames : <<v, <<112, 97, 115, 115, 195, 169, 49>>>> \in registered

\* C6: register_user with a username already in the users table returns False,
\* adds no row and leaves the stored hash as it was: the password registered
\* first still verifies and the new one does not.
C6_DuplicateUsernameRejected ==
    [][\A u \in Usernames, p \in Passwords, salt \in Salts, ok \in BOOLEAN :
         (register_user(u, p, salt, ok) /\ \E r \in users : r.username = u)
         => /\ ret' = FALSE
            /\ users' = users
            /\ \A q \in Passwords :
                 verify_user_result(users', u, q) = (<<u, q>> \in registered)]_vars

\* C6 witness: a registration was refused for a username that has a row.
C6_Witness ==
    /\ lastCall.op = "register_user"
    /\ ret = FALSE
    /\ message = MsgNone
    /\ \E r \in users : r.username = lastCall.user
    /\ Cardinality(users) = 2

\* C12: a failure of the credential store is told apart from a duplicate
\* username and from bad credentials: when register_user failed on the store,
\* the sign-up page does not say the username already exists, and when
\* verify_user failed on the store, the login page does not say the username
\* or password is invalid.
C12_StoreFailureToldApart ==
    /\ (lastCall.op = "register_user" /\ message = MsgRegisterError)
         => view.alert # AlertUsernameExists
    /\ (lastCall.op = "verify_user" /\ message = MsgVerifyRaised)
         => view.alert # AlertInvalidLogin

\* the usernames of the users table
RegisteredUsernames == { r.username : r \in users }

\* C13: in every state of the application every row of expenses and of budget
\* carries the username of a row of users: the session's user_id is set only
\* by a login that verify_user accepted, and the store operations that write
\* are only ever called with that user_id.
C13_RowsBelongToRegisteredUsers ==
    /\ \A r \in expenses : r.user_id \in RegisteredUsernames
    /\ \A r \in budget : r.user_id \in RegisteredUsernames
    /\ session_state.authenticated
         => /\ session_state.user_id \in RegisteredUsernames
            /\ \E p \in AppPasswords : <<session_state.user_id, p>> \in registered
    /\ ~session_state.authenticated => session_state.user_id = NoUser
    /\ lastCall.op \in {"add_expense", "update_expense", "delete_expense", "set_budget"}
         => lastCall.user \in RegisteredUsernames

\* C13 witness: a logged-in user has an expense row and a budget row, after a
\* sign-up under a username the form turned away
C13_Witness ==
    /\ session_state.authenticated
    /\ \E r \in expenses : r.user_id = session_state.user_id
    /\ \E r \in budget : r.user_id = session_state.user_id
    /\ "al" \notin RegisteredUsernames

----------------------------------------------------------------------------
(* Claims about the cached reads *)

\* the step is a run of show_main_app that got past the logout button
RunPastLogout == pc = "idle" /\ pc' = "body"

\* the step is the rest of a run in which the named store operation is called
CalledAddExpense ==
    pc = "body" /\ event.kind = "add_submit" /\ event.data.description # ""
CalledSetBudget == pc = "body" /\ event.kind = "budget_submit"
CalledUpdateExpense == pc = "body" /\ event.kind = "edit_submit" /\ edit_form_rendered
CalledDeleteExpense ==
    /\ pc = "body" /\ event.kind = "delete_click"
    /\ event.id \in ListIds(view'.expenses_filtered)

\* (a) a store operation that reports success leaves its write flag set
WriteSetsItsFlag ==
    /\ CalledAddExpense /\ message' = MsgAdded => write_flags'.expense_added
    /\ CalledSetBudget /\ message' = MsgBudgetSet => write_flags'.budget_set
    /\ CalledUpdateExpense /\ message' = MsgUpdated => write_flags'.expense_updated
    /\ CalledDeleteExpense /\ message' = MsgDeleted => write_flags'.expense_deleted

\* (b) a run that starts with a write flag set leaves in each cache nothing but
\* the entry read in this run, displays what the tables hold, and resets the flags
RunAfterWriteRefreshes ==
    RunPastLogout /\ any_write_flag =>
        LET u == session_state.user_id
            m == session_state.selected_month
            y == session_state.selected_year
        IN /\ view'.refreshed
           /\ view'.expenses \in get_expenses(expenses, u, m, y)
           /\ view'.budget_data \in get_budget(budget, u)
           /\ view'.total_spending = sum_amounts(view'.expenses)
           /\ cache_expenses' = { [key |-> <<u, m, y>>, value |-> view'.expenses,
                                   at |-> now] }
           /\ cache_budget' = { [key |-> u, value |-> view'.budget_data, at |-> now] }
           /\ write_flags' = WriteFlagsInit

\* (c) the expense list drawn by the rest of such a run is what the table holds
RefreshedRunListsTable ==
    pc = "body" /\ view.refreshed /\ ~rerun' =>
        view'.expenses_filtered \in
            get_expenses(expenses, session_state.user_id,
                         session_state'.selected_month, session_state'.selected_year)

\* C8: within one logged-in session, every successful add_expense,
\* update_expense, delete_expense or set_budget sets its write flag, and the
\* next run of show_main_app clears both read caches and reads again before
\* the expenses and budget it displays are computed: the run displays the
\* tables as the write left them and leaves all four write flags false.
C8_WriteFlagRefreshesNextRun ==
    [][WriteSetsItsFlag /\ RunAfterWriteRefreshes /\ RefreshedRunListsTable]_vars

\* a budget was set and the only expense deleted, the caches held the older
\* results, and the run after the delete shows no expense and the budget
C8_Witness ==
    /\ pc = "body"
    /\ view.refreshed
    /\ lastCall.op = "delete_expense" /\ message = MsgDeleted
    /\ view.expenses = << >>
    /\ view.budget_data.has
    /\ expenses = {} /\ expenses_seq = 1
    /\ write_flags = WriteFlagsInit

\* C16: a pending cache invalidation is never lost, whatever the user does,
\* a logout and a new login within the freshness window included: the
\* expenses and the budget a run of show_main_app displays are what the tables
\* hold for the user and the period, so no successful write of the user is
\* missing from them and a deleted row is not shown again.
C16_DisplayNeverOmitsAWrite ==
    pc = "body" =>
        /\ view.expenses \in get_expenses(expenses, session_state.user_id,
                                          session_state.selected_month,
                                          session_state.selected_year)
        /\ view.budget_data \in get_budget(budget, session_state.user_id)

\* C18: in every run of show_main_app the budget overview and the transaction
\* list are computed from the expenses of the same period: when a run has
\* drawn the whole page, the month or year selector changed in it or not,
\* the total of the overview is the total of the expenses listed.
C18_OverviewAndListOfSamePeriod ==
    (pc = "idle" /\ session_state.authenticated /\ ~rerun)
        => view.total_spending = sum_amounts(view.expenses_filtered)

----------------------------------------------------------------------------
(* Claims about the spending by category *)

CategoriesOf(expenses_list) ==
    { expenses_list[i].category : i \in 1..Len(expenses_list) }

RECURSIVE SumOfCategory(_, _)
SumOfCategory(expenses_list, category) ==
    IF expenses_list = << >> THEN 0
    ELSE (IF Head(expenses_list).category = category THEN Head(expenses_list).amount
          ELSE 0) + SumOfCategory(Tail(expenses_list), category)

\* where the category is met first in the list
FirstIndex(expenses_list, category) ==
    CHOOSE i \in 1..Len(expenses_list) :
        /\ expenses_list[i].category = category
        /\ \A j \in 1..(i - 1) : expenses_list[j].category # category

\* C15: the category aggregation has one item for each category occurring in
\* the list, with the sum of the amounts of its entries, the items in
\* descending order of sum and items of equal sum in the order their
\* categories are first met in the list; Food 10, Food 5, Transport 7 gives
\* Food 15 then Transport 7.
C15_CategoryAggregation ==
    pc = "charted" =>
        LET l == view.expenses_filtered
            s == view.sorted_category_spending
        IN /\ { s[i].category : i \in 1..Len(s) } = CategoriesOf(l)
           /\ Len(s) = Cardinality(CategoriesOf(l))
           /\ \A i \in 1..Len(s) : s[i].amount = SumOfCategory(l, s[i].category)
           /\ \A i, j \in 1..Len(s) :
                i < j => /\ s[i].amount >= s[j].amount
                         /\ s[i].amount = s[j].amount
                              => FirstIndex(l, s[i].category) < FirstIndex(l, s[j].category)
           /\ l = << CategoryExpense(1, "Food", 10), CategoryExpense(2, "Food", 5),
                     CategoryExpense(3, "Transport", 7) >>
                => s = << [category |-> "Food", amount |-> 15],
                          [category |-> "Transport", amount |-> 7] >>

\* C15 witness: Food 5, Transport 10, Food 5: two sums of 10, Food met first
C15_Witness ==
    /\ pc = "charted"
    /\ view.expenses_filtered =
         << CategoryExpense(1, "Food", 5), CategoryExpense(2, "Transport", 10),
            CategoryExpense(3, "Food", 5) >>
    /\ view.sorted_category_spending =
         << [category |-> "Food", amount |-> 10],
            [category |-> "Transport", amount |-> 10] >>

----------------------------------------------------------------------------
(* Claims about the budget overview *)

\* C9: the percentage used computed from a set budget and the period total is
\* total / budget * 100, not clamped (125 for budget 200 and total 250).
C9_PercentageNotClamped ==
    (pc = "displayed" /\ view.budget_data.has /\ view.budget_data.amount > 0)
    => RatioEq(view.budget_percentage,
               Ratio(view.total_spending * 100, view.budget_data.amount))

\* C10: the progress band is the normal one when the percentage used is at
\* most 75, the warning one above 75 and up to 100, the over-budget one when
\* the total exceeds the budget.
C10_BandingByPercentageUsed ==
    (pc = "displayed" /\ view.budget_data.has /\ view.budget_data.amount > 0)
    => view.progress_color_bar =
         IF view.total_spending * 100 <= 75 * view.budget_data.amount
         THEN COLOR_SUCCESS
         ELSE IF view.total_spending <= view.budget_data.amount
              THEN COLOR_WARNING
              ELSE COLOR_ERROR

====
